---------------------------- MODULE Spec2Model ----------------------------
(***************************************************************************)
(* BusService (src/unnamed/part_000): the transit-schedule loader.         *)
(*                                                                         *)
(* The service fetches a hierarchical payload (stop -> bus line -> day     *)
(* class -> first/last bus), normalises it into three row batches and      *)
(* writes them to a SQLite store in chunks inside one transaction.         *)
(*                                                                         *)
(* Every `await` of the source is one step of the model: the awaited call  *)
(* settles (with an outcome chosen by the environment) and the code that   *)
(* follows it runs up to the next `await`.                                 *)
(*                                                                         *)
(* Text is modelled as a sequence of one-character strings, so that        *)
(* parseInt and the route-identifier template are computed, not assumed.   *)
(***************************************************************************)
EXTENDS Integers, Sequences, FiniteSets, TLC

VARIABLES
    db,            \* this.db: "null" before Database.load, then "connected"
    store,         \* the three tables as the connection sees them
    txnOpen,       \* the connection has an open transaction
    journal,       \* the tables as they were when the open transaction began
    pc,            \* per call: the await the call is suspended at
    op,            \* per call: the public method that was invoked
    busStopsData,  \* per call: the payload `invoke` returned
    chunks,        \* per call: stopChunks, routeChunks, timeChunks
    cursor,        \* per call: table and chunk of the INSERT loop
    pending,       \* per call: statements issued to the store and not settled
    count,         \* per call: `count` of ensureDataPopulated
    insertError,   \* per call: the error caught at line 173
    result,        \* per call: what the method returned or threw
    log,           \* per call: the calls settled so far, with their outcome
    atCall,        \* per call: the committed tables when the method was invoked
    atBegin,       \* per call: the tables when its BEGIN succeeded
    afterRefresh,  \* a refresh emptied the store and did not reload it
    query,         \* per call: the `query` argument of searchBusStops
    stopCode,      \* per call: the `busStopCode` argument of getBusStopInfo
    returned,      \* per call: the list a query method returned
    previous       \* the method that returned successfully just before the
                   \* ensureDataPopulated (or init) now in flight

vars == <<db, store, txnOpen, journal, pc, op, busStopsData, chunks, cursor,
          pending, count, insertError, result, log, atCall, atBegin,
          afterRefresh, query, stopCode, returned, previous>>

(***************************************************************************)
(* Bounds of the model.                                                    *)
(***************************************************************************)
\* bus lines per stop in a payload
MaxLines == 1

\* rows per multi-row INSERT.  The source writes 500 (lines 145, 153, 161);
\* the model takes a size that splits its bounded batches into several
\* chunks, the last one partial
ChunkSize == 2

(***************************************************************************)
(* Text.                                                                   *)
(***************************************************************************)
Digits == <<"0", "1", "2", "3", "4", "5", "6", "7", "8", "9">>

IsDigit(c) == \E i \in 1..10 : Digits[i] = c

DigitVal(c) == (CHOOSE i \in 1..10 : Digits[i] = c) - 1

IsSpace(c) == c = " "

RECURSIVE SkipSpace(_)
SkipSpace(s) ==
    IF s # <<>> /\ IsSpace(Head(s)) THEN SkipSpace(Tail(s)) ELSE s

RECURSIVE DigitRun(_)
\* the longest prefix of s made of decimal digits
DigitRun(s) ==
    IF s # <<>> /\ IsDigit(Head(s)) THEN <<Head(s)>> \o DigitRun(Tail(s))
    ELSE <<>>

RECURSIVE DecimalValue(_, _)
DecimalValue(s, acc) ==
    IF s = <<>> THEN acc ELSE DecimalValue(Tail(s), 10 * acc + DigitVal(Head(s)))

\* the value JavaScript calls NaN; the SQL binding stores it as NULL
NaN == [nan |-> TRUE, n |-> 0]

Num(n) == [nan |-> FALSE, n |-> n]

\* parseInt(text, 10): leading white space is skipped, one sign is read, then
\* the longest run of digits; anything after the run is ignored; no digit
\* at all gives NaN
parseInt(text) ==
    LET t    == SkipSpace(text)
        neg  == t # <<>> /\ Head(t) = "-"
        sgn  == t # <<>> /\ Head(t) \in {"-", "+"}
        body == IF sgn THEN Tail(t) ELSE t
        run  == DigitRun(body)
    IN IF run = <<>> THEN NaN
       ELSE Num(IF neg THEN 0 - DecimalValue(run, 0) ELSE DecimalValue(run, 0))

\* `${busStopCode}-${busNumber}`
routeId(busStopCode, busNumber) == busStopCode \o <<"-">> \o busNumber

(***************************************************************************)
(* The payload of fetch_bus_data_from_api.                                 *)
(*                                                                         *)
(* A payload is the sequence of (key, stop record) pairs in the order      *)
(* `for ... in` visits them; a stop record's `buses` is such a sequence    *)
(* too.  A first/last-bus field (wd_flb, sat_flb, sun_flb) is              *)
(*   [own |-> hasOwnProperty, fb |-> ..., lb |-> ...]                      *)
(* where fb and lb are "undefined" (the property is missing), "" or a      *)
(* time of day.                                                            *)
(***************************************************************************)
days == << <<"wd_flb", "wd">>, <<"sat_flb", "sat">>, <<"sun_flb", "sun">> >>

Flb(own, fb, lb) == [own |-> own, fb |-> fb, lb |-> lb]

\* a faulty test that takes the empty text for a time
TruthyIfDefined(v) == v # "undefined"

\* a value is truthy in `times.fb && times.lb` unless it is missing or ""
Truthy(v) == v # "undefined" /\ v # ""

StopKeys == { <<"1">>, <<"2">>, <<"A">> }

BusNumbers == { <<"7">>, <<"8">> }

\* route records: wd complete, sat with a first bus only, sun complete;
\* and a record with no first/last-bus field at all
RouteRecords ==
    { [operator |-> "SBST", stop_seq |-> 1,
       wd_flb  |-> Flb(TRUE, "0500", "2300"),
       sat_flb |-> Flb(TRUE, "0500", "undefined"),
       sun_flb |-> Flb(TRUE, "0600", "2200")] }

\* a canonical array index ("0", "7", "12", not "01", not "7A"): `for ... in`
\* visits such keys first, in ascending numeric order, then the others
IsIndexKey(k) ==
    /\ k # <<>>
    /\ \A i \in 1..Len(k) : IsDigit(k[i])
    /\ (Len(k) > 1 => k[1] # "0")

\* the order `for ... in` can visit the keys of one object in
ForInOrder(keys) ==
    /\ \A i, j \in 1..Len(keys) : i # j => keys[i] # keys[j]
    /\ \A i, j \in 1..Len(keys) : i < j =>
          /\ IsIndexKey(keys[j]) => IsIndexKey(keys[i])
          /\ (IsIndexKey(keys[i]) /\ IsIndexKey(keys[j])) =>
                DecimalValue(keys[i], 0) < DecimalValue(keys[j], 0)

SeqsUpTo(S, n) == UNION { [1..k -> S] : k \in 0..n }

BusMaps ==
    { b \in SeqsUpTo([num : BusNumbers, route : RouteRecords], MaxLines) :
        ForInOrder([i \in 1..Len(b) |-> b[i].num]) }

\* a stop record; isNull: the key's value is null instead of an object
StopRecords ==
    [road_name : {<<"M", "a", "i", "n", " ", "S", "t">>},
     desc : {<<"N", "e", "a", "r", " ", "P", "a", "r", "k">>},
     latitude : {1}, longitude : {103}, buses : BusMaps, isNull : {FALSE}]

Payloads ==
    { d \in SeqsUpTo([key : StopKeys, stop : StopRecords], Cardinality(StopKeys)) :
        ForInOrder([i \in 1..Len(d) |-> d[i].key]) }


(***************************************************************************)
(* Payloads that exercise the normaliser: keys that are not canonical      *)
(* numerals, hyphens in keys and line numbers, first/last-bus fields with  *)
(* a time missing or empty, a null stop record, and the empty payload.     *)
(***************************************************************************)
Stop(buses) ==
    [road_name |-> <<"M", "a", "i", "n", " ", "S", "t">>,
     desc |-> <<"N", "e", "a", "r", " ", "P", "a", "r", "k">>,
     latitude |-> 1, longitude |-> 103, buses |-> buses, isNull |-> FALSE]

\* `"1": null`
NullStop == [Stop(<<>>) EXCEPT !.isNull = TRUE]

\* "01" and "1A" parse to the integer "1" parses to
KeyTexts == { <<"1">>, <<"0", "1">>, <<"1", "A">>, <<"2">> }

\* up to two stops without bus lines
KeyPayloads ==
    { d \in SeqsUpTo([key : KeyTexts, stop : {Stop(<<>>)}], 2) :
        ForInOrder([i \in 1..Len(d) |-> d[i].key]) }

\* wd_flb: complete, a time missing, a time empty, or the field missing
FlbCases ==
    { Flb(TRUE, "0500", "2300"), Flb(TRUE, "0500", "undefined"),
      Flb(TRUE, "undefined", "2300"), Flb(TRUE, "", "2300"),
      Flb(TRUE, "0500", ""), Flb(FALSE, "undefined", "undefined") }

TimeRecords ==
    [operator : {"SBST"}, stop_seq : {1},
     wd_flb  : FlbCases,
     sat_flb : {Flb(TRUE, "0500", "2300"), Flb(FALSE, "undefined", "undefined")},
     sun_flb : {Flb(TRUE, "0600", "2200"), Flb(TRUE, "0600", "undefined")}]

\* one stop with one bus line
TimePayloads ==
    { << [key |-> <<"1">>, stop |-> Stop(<< [num |-> <<"7">>, route |-> r] >>)] >> :
        r \in TimeRecords }

Complete ==
    [operator |-> "SBST", stop_seq |-> 1,
     wd_flb  |-> Flb(TRUE, "0500", "2300"),
     sat_flb |-> Flb(TRUE, "0500", "2300"),
     sun_flb |-> Flb(TRUE, "0600", "2200")]

\* stops "1" and "1-2", one bus line each, "3" or "2-3"
HyphenPayloads ==
    { << [key |-> <<"1">>, stop |-> Stop(<< [num |-> a, route |-> Complete] >>)],
         [key |-> <<"1", "-", "2">>, stop |-> Stop(<< [num |-> b, route |-> Complete] >>)] >> :
        a, b \in { <<"3">>, <<"2", "-", "3">> } }

\* a stop record that is null, alone or after a stop
NullPayloads ==
    { << [key |-> <<"1">>, stop |-> NullStop] >>,
      << [key |-> <<"1">>, stop |-> Stop(<<>>)], [key |-> <<"2">>, stop |-> NullStop] >> }

InputPayloads == KeyPayloads \cup TimePayloads \cup HyphenPayloads \cup NullPayloads

(***************************************************************************)
(* The normaliser: lines 87-141 of fetchAndStoreBusData.                   *)
(***************************************************************************)
\* lines 98-106: `stopData.road_name` of a stop record that is null is a
\* TypeError
NormalisationThrows(data) == \E i \in 1..Len(data) : data[i].stop.isNull

StopRow(busStopCode, stopData) ==
    [bus_stop_id |-> parseInt(busStopCode),
     road_name   |-> stopData.road_name,
     description |-> stopData.desc,
     latitude    |-> stopData.latitude,
     longitude   |-> stopData.longitude]

RouteRow(busStopCode, busNumber, busRouteData) ==
    [route_id    |-> routeId(busStopCode, busNumber),
     bus_stop_id |-> parseInt(busStopCode),
     bus_number  |-> busNumber,
     operator    |-> busRouteData.operator,
     stop_seq    |-> busRouteData.stop_seq]

TimeField(busRouteData, jsonKey) ==
    CASE jsonKey = "wd_flb"  -> busRouteData.wd_flb
      [] jsonKey = "sat_flb" -> busRouteData.sat_flb
      [] jsonKey = "sun_flb" -> busRouteData.sun_flb

\* lines 125-137: one row per day class whose field is present with both times
RECURSIVE TimeRows(_, _, _)
TimeRows(id, busRouteData, i) ==
    IF i > Len(days) THEN <<>>
    ELSE LET times == TimeField(busRouteData, days[i][1])
             row   == [route_id |-> id, day_of_week |-> days[i][2],
                       first_bus |-> times.fb, last_bus |-> times.lb]
         IN (IF times.own /\ Truthy(times.fb) /\ Truthy(times.lb)
             THEN <<row>> ELSE <<>>)
            \o TimeRows(id, busRouteData, i + 1)

RECURSIVE stopsToInsert(_)
stopsToInsert(data) ==
    IF data = <<>> THEN <<>>
    ELSE <<StopRow(Head(data).key, Head(data).stop)>> \o stopsToInsert(Tail(data))

RECURSIVE RoutesOfStop(_, _)
RoutesOfStop(busStopCode, buses) ==
    IF buses = <<>> THEN <<>>
    ELSE <<RouteRow(busStopCode, Head(buses).num, Head(buses).route)>>
         \o RoutesOfStop(busStopCode, Tail(buses))

RECURSIVE routesToInsert(_)
routesToInsert(data) ==
    IF data = <<>> THEN <<>>
    ELSE RoutesOfStop(Head(data).key, Head(data).stop.buses)
         \o routesToInsert(Tail(data))

RECURSIVE TimesOfStop(_, _)
TimesOfStop(busStopCode, buses) ==
    IF buses = <<>> THEN <<>>
    ELSE TimeRows(routeId(busStopCode, Head(buses).num), Head(buses).route, 1)
         \o TimesOfStop(busStopCode, Tail(buses))

RECURSIVE timesToInsert(_)
timesToInsert(data) ==
    IF data = <<>> THEN <<>>
    ELSE TimesOfStop(Head(data).key, Head(data).stop.buses)
         \o timesToInsert(Tail(data))

Min(a, b) == IF a < b THEN a ELSE b

RECURSIVE ChunksFrom(_, _, _)
ChunksFrom(arr, size, i) ==
    IF i >= Len(arr) THEN <<>>
    ELSE <<SubSeq(arr, i + 1, Min(i + size, Len(arr)))>>
         \o ChunksFrom(arr, size, i + size)

RECURSIVE FullChunksFrom(_, _, _)
FullChunksFrom(arr, size, i) ==
    IF i + size > Len(arr) THEN <<>>
    ELSE <<SubSeq(arr, i + 1, i + size)>> \o FullChunksFrom(arr, size, i + size)

\* a faulty loop, `i + size <= arr.length`: the last, shorter slice is lost
chunkArrayFullOnly(arr, size) == FullChunksFrom(arr, size, 0)

\* a faulty loop that tests after the push: an empty array yields one
\* empty chunk
chunkArrayAtLeastOne(arr, size) ==
    IF arr = <<>> THEN << <<>> >> ELSE ChunksFrom(arr, size, 0)

\* for (let i = 0; i < arr.length; i += size) push(arr.slice(i, i + size))
chunkArray(arr, size) == ChunksFrom(arr, size, 0)

\* a faulty order: the routes are written before the stops they reference
InsertOrderRoutesFirst == <<"bus_routes", "bus_stops", "bus_times">>

\* a faulty order that writes the schedule entries before stops and routes
InsertOrderTimesFirst == <<"bus_times", "bus_stops", "bus_routes">>

\* lines 145-166: the stop chunks, then the route chunks, then the time chunks
InsertOrder == <<"bus_stops", "bus_routes", "bus_times">>

\* a faulty order: parents are deleted before their children
DeleteOrderParentsFirst == <<"bus_stops", "bus_routes", "bus_times">>

\* lines 233-235
DeleteOrder == <<"bus_times", "bus_routes", "bus_stops">>

\* the three batches of a payload, by table
Batches(data) ==
    [bus_stops  |-> stopsToInsert(data),
     bus_routes |-> routesToInsert(data),
     bus_times  |-> timesToInsert(data)]

\* a faulty count: the stop chunks written, not the stops
busStopCountChunks(data) == Len(chunkArray(stopsToInsert(data), ChunkSize))

\* Object.keys(busStopsData).length
busStopCount(data) == Len(data)

\* stopChunks, routeChunks, timeChunks
ChunksOf(data) ==
    [t \in {"bus_stops", "bus_routes", "bus_times"} |->
        chunkArray(Batches(data)[t], ChunkSize)]

NoChunks == [t \in {"bus_stops", "bus_routes", "bus_times"} |-> <<>>]

(***************************************************************************)
(* The store: one SQLite connection ('sqlite:bus_data.db').                *)
(*                                                                         *)
(* A statement that fails changes no row.  Outside a transaction a         *)
(* statement commits by itself.  BEGIN inside a transaction, and COMMIT or *)
(* ROLLBACK outside one, fail.  An INSERT or a COMMIT can fail in a way    *)
(* that makes SQLite roll the open transaction back by itself ("fatal":    *)
(* disk full, I/O error, out of memory); the transaction is then gone when *)
(* the code's own ROLLBACK arrives.                                        *)
(***************************************************************************)
EmptyTables == [bus_stops |-> <<>>, bus_routes |-> <<>>, bus_times |-> <<>>]

Stmt(verb, table, rows) == [verb |-> verb, table |-> table, rows |-> rows]

BEGIN_TRANSACTION == Stmt("BEGIN", "-", <<>>)

COMMIT == Stmt("COMMIT", "-", <<>>)

ROLLBACK == Stmt("ROLLBACK", "-", <<>>)

SELECT_COUNT == Stmt("SELECT COUNT", "bus_stops", <<>>)

DELETE_FROM(table) == Stmt("DELETE", table, <<>>)

INSERT_INTO(table, rows) == Stmt("INSERT", table, rows)

\* the primary-key value of a row: stops by identifier, routes by route
\* identifier; schedule entries have no key
PrimaryKey(table, row) ==
    CASE table = "bus_stops"  -> [keyed |-> ~row.bus_stop_id.nan, int |-> row.bus_stop_id.n, text |-> <<>>]
      [] table = "bus_routes" -> [keyed |-> TRUE, int |-> 0, text |-> row.route_id]
      [] OTHER                -> [keyed |-> FALSE, int |-> 0, text |-> <<>>]

\* the rows cannot be added without two rows of the table sharing a key
\* (a NULL key equals no key)
PkViolation(table, existing, rows) ==
    LET all == existing \o rows
    IN \E i \in 1..Len(all), j \in Len(existing) + 1..Len(all) :
          /\ i < j
          /\ PrimaryKey(table, all[i]).keyed
          /\ PrimaryKey(table, all[i]) = PrimaryKey(table, all[j])

\* how the statement can end on the store as it is now
Outcomes(stmt, tables, open) ==
    CASE stmt.verb = "BEGIN"    -> IF open THEN {"error"} ELSE {"ok", "error"}
      [] stmt.verb = "INSERT"   ->
            IF PkViolation(stmt.table, tables[stmt.table], stmt.rows)
            THEN {"error"} ELSE {"ok", "error", "fatal"}
      [] stmt.verb = "COMMIT"   -> IF open THEN {"ok", "error", "fatal"} ELSE {"error"}
      [] stmt.verb = "ROLLBACK" -> IF open THEN {"ok"} ELSE {"error"}
      [] OTHER                  -> {"ok", "error"}

\* the tables after the statement ended with the outcome
TablesAfter(stmt, outcome, tables, open, saved) ==
    CASE outcome = "fatal" /\ open                  -> saved
      [] outcome = "ok" /\ stmt.verb = "INSERT"     ->
            [tables EXCEPT ![stmt.table] = @ \o stmt.rows]
      [] outcome = "ok" /\ stmt.verb = "DELETE"     ->
            [tables EXCEPT ![stmt.table] = <<>>]
      [] outcome = "ok" /\ stmt.verb = "ROLLBACK"   -> saved
      [] OTHER                                      -> tables

OpenAfter(stmt, outcome, open) ==
    CASE outcome = "fatal"                                        -> FALSE
      [] outcome = "ok" /\ stmt.verb = "BEGIN"                    -> TRUE
      [] outcome = "ok" /\ stmt.verb \in {"COMMIT", "ROLLBACK"}   -> FALSE
      [] OTHER                                                    -> open

\* the store executes one statement
Execute(stmt, outcome) ==
    /\ outcome \in Outcomes(stmt, store, txnOpen)
    /\ store'   = TablesAfter(stmt, outcome, store, txnOpen, journal)
    /\ txnOpen' = OpenAfter(stmt, outcome, txnOpen)
    /\ journal' = IF OpenAfter(stmt, outcome, txnOpen)
                  THEN (IF txnOpen THEN journal ELSE store)
                  ELSE EmptyTables

\* what a reader on another connection, or the next process, finds
Committed == IF txnOpen THEN journal ELSE store

StmtName(stmt) ==
    IF stmt.verb \in {"INSERT", "DELETE"} THEN <<stmt.verb, stmt.table>>
    ELSE <<stmt.verb, "-">>

Entry(name, outcome) == [call |-> name, outcome |-> outcome]

(***************************************************************************)
(* searchBusStops: lines 184-198.                                          *)
(***************************************************************************)
\* the `query` argument: not given (undefined), or a text
NoQuery == [given |-> FALSE, text |-> <<>>]

Query(text) == [given |-> TRUE, text |-> text]

\* the arguments the user interface passes
Queries ==
    { NoQuery, Query(<<>>), Query(<<"1">>), Query(<<"M">>),
      Query(<<"m", "a">>), Query(<<"P", "a">>), Query(<<"1", "2">>),
      Query(<<"a", "_">>) }

\* a faulty guard that lets a query of one character through
TooShortEmptyOnly(q) == ~q.given \/ q.text = <<>>

\* line 185: `!query || query.length < 2`
TooShort(q) == ~q.given \/ q.text = <<>> \/ Len(q.text) < 2

\* line 188: `%${query}%`
searchTerm(q) == <<"%">> \o q.text \o <<"%">>

LowerCase == <<"a", "b", "c", "d", "e", "f", "g", "h", "i", "j", "k", "l", "m",
               "n", "o", "p", "q", "r", "s", "t", "u", "v", "w", "x", "y", "z">>

UpperCase == <<"A", "B", "C", "D", "E", "F", "G", "H", "I", "J", "K", "L", "M",
               "N", "O", "P", "Q", "R", "S", "T", "U", "V", "W", "X", "Y", "Z">>

\* LIKE compares ASCII letters without regard to case
Fold(c) ==
    IF \E i \in 1..Len(LowerCase) : LowerCase[i] = c
    THEN UpperCase[CHOOSE i \in 1..Len(LowerCase) : LowerCase[i] = c]
    ELSE c

RECURSIVE Like(_, _)
\* text LIKE pattern: % stands for any run of characters, _ for any one
Like(text, pattern) ==
    IF pattern = <<>> THEN text = <<>>
    ELSE IF Head(pattern) = "%"
         THEN Like(text, Tail(pattern)) \/ (text # <<>> /\ Like(Tail(text), pattern))
    ELSE /\ text # <<>>
         /\ (Head(pattern) = "_" \/ Fold(Head(pattern)) = Fold(Head(text)))
         /\ Like(Tail(text), Tail(pattern))

RECURSIVE DecimalText(_)
\* the decimal digits of a natural number
DecimalText(n) ==
    IF n < 10 THEN <<Digits[n + 1]>>
    ELSE DecimalText(n \div 10) \o <<Digits[(n % 10) + 1]>>

\* an integer column read as text
IntegerText(n) == IF n < 0 THEN <<"-">> \o DecimalText(0 - n) ELSE DecimalText(n)

\* WHERE bus_stop_id LIKE $1 OR description LIKE $2 OR road_name LIKE $3
\* (a NULL identifier is LIKE nothing)
Where(row, term) ==
    \/ (~row.bus_stop_id.nan /\ Like(IntegerText(row.bus_stop_id.n), term))
    \/ Like(row.description, term)
    \/ Like(row.road_name, term)

\* the characters of the model in the order of their codes
CodeOrder ==
    <<" ", "%", "-">> \o Digits \o UpperCase \o <<"_">> \o LowerCase

Code(c) == CHOOSE i \in 1..Len(CodeOrder) : CodeOrder[i] = c

RECURSIVE TextLeq(_, _)
\* a <= b in the byte order ORDER BY uses for text
TextLeq(a, b) ==
    IF a = <<>> THEN TRUE
    ELSE IF b = <<>> THEN FALSE
    ELSE IF Head(a) = Head(b) THEN TextLeq(Tail(a), Tail(b))
    ELSE Code(Head(a)) < Code(Head(b))

\* LIMIT 50
SearchLimit == 50

\* the lists the SELECT of lines 189-196 can return: the rows that satisfy
\* WHERE, in an order that ascends by road_name (rows of equal road_name
\* come in any order), cut after SearchLimit rows
SearchResults(tables, q) ==
    LET found  == SelectSeq(tables.bus_stops, LAMBDA r : Where(r, searchTerm(q)))
        n      == Len(found)
        orders == { f \in [1..n -> 1..n] :
                      /\ \A i, j \in 1..n : i # j => f[i] # f[j]
                      /\ \A i, j \in 1..n : i < j =>
                            TextLeq(found[f[i]].road_name, found[f[j]].road_name) }
    IN { [i \in 1..Min(n, SearchLimit) |-> found[f[i]]] : f \in orders }

SELECT_SEARCH == Stmt("SELECT", "bus_stops", <<>>)

(***************************************************************************)
(* getBusStopInfo: lines 200-206.                                          *)
(***************************************************************************)
\* the `busStopCode` argument when none is passed: undefined, bound as NULL
NoCode == NaN

\* the arguments the user interface passes: a stop number, or nothing
Codes == { Num(1), Num(2), Num(7), NoCode }

\* SELECT * FROM bus_stops WHERE bus_stop_id = ?  (NULL equals nothing)
Lookup(tables, code) ==
    SelectSeq(tables.bus_stops,
              LAMBDA r : ~code.nan /\ ~r.bus_stop_id.nan /\ r.bus_stop_id.n = code.n)

SELECT_INFO == Stmt("SELECT WHERE", "bus_stops", <<>>)

(***************************************************************************)
(* What a method hands back to its caller.                                 *)
(***************************************************************************)
NoError == <<"-", "-">>

TypeError == <<"TypeError", "-">>

NoResult == [kind |-> "-", success |-> "-", text |-> "-", n |-> 0, error |-> NoError]

\* `throw error`
Thrown(e) == [kind |-> "throw", success |-> "-", text |-> "-", n |-> 0, error |-> e]

\* `return count` of refreshData
ReturnedCount(n) ==
    [kind |-> "return", success |-> "-", text |-> "count", n |-> n, error |-> NoError]

\* `return {success, message}`
Outcome(success, text, n, e) ==
    [kind |-> "return", success |-> success, text |-> text, n |-> n, error |-> e]

\* `return []`, `return result` of searchBusStops: a list of n rows
ReturnedRows(n) ==
    [kind |-> "return", success |-> "-", text |-> "rows", n |-> n, error |-> NoError]

\* `return null` of getBusStopInfo
ReturnedNull ==
    [kind |-> "return", success |-> "-", text |-> "null", n |-> 0, error |-> NoError]

\* `return result[0]` of getBusStopInfo: one row
ReturnedRow ==
    [kind |-> "return", success |-> "-", text |-> "row", n |-> 1, error |-> NoError]

\* a faulty lookup that reads a field of result[0] when there is none
FirstOrThrow(rows) == IF rows = <<>> THEN Thrown(TypeError) ELSE ReturnedRow

\* line 205: `result[0] || null`
FirstOrNull(rows) == IF rows = <<>> THEN ReturnedNull ELSE ReturnedRow

\* what the call that just returned leaves for the next one to find: a
\* refreshData that returned, or an ensureDataPopulated (alone or inside
\* init) that reported success
Completed(method, r) ==
    IF r.kind # "return" \/ r.success = "false" THEN "none"
    ELSE IF method = "refresh" THEN "refresh"
    ELSE IF method \in {"ensure", "init"} THEN "ensure"
    ELSE "none"

\* a faulty init, without the catch of lines 25-30
RaiseThrows(method, e) == Thrown(e)

\* an error leaves the method: refreshData has no handler, ensureDataPopulated
\* rethrows (line 58), init turns it into {success: false} (lines 25-30)
Raise(method, e) ==
    IF method = "init" THEN Outcome("false", "error", 0, e) ELSE Thrown(e)

\* fetchAndStoreBusData returned n (line 171) to refreshData (line 236) or to
\* ensureDataPopulated (line 43), itself possibly called by init (line 18)
Loaded(method, n) ==
    IF method = "refresh" THEN ReturnedCount(n) ELSE Outcome("true", "loaded", n, NoError)

\* lines 49-53, possibly through init
Existing(n) == Outcome("true", "existing", n, NoError)

(***************************************************************************)
(* The INSERT loops of lines 145-166.                                      *)
(***************************************************************************)
RECURSIVE FirstTableFrom(_, _)
\* the first table at or after position t of InsertOrder that has a chunk
FirstTableFrom(ch, t) ==
    IF t > Len(InsertOrder) THEN t
    ELSE IF ch[InsertOrder[t]] # <<>> THEN t
    ELSE FirstTableFrom(ch, t + 1)

\* a faulty loop: COMMIT follows the last chunk of the first table written
NextCursorPerTable(ch, cur) ==
    IF cur.t \in 1..Len(InsertOrder) /\ cur.c < Len(ch[InsertOrder[cur.t]])
    THEN [t |-> cur.t, c |-> cur.c + 1]
    ELSE IF cur.t = 0 THEN [t |-> FirstTableFrom(ch, 1), c |-> 1]
    ELSE [t |-> Len(InsertOrder) + 1, c |-> 1]

\* the chunk after chunk cur.c of table cur.t; past the last table: COMMIT
NextCursor(ch, cur) ==
    IF cur.t \in 1..Len(InsertOrder) /\ cur.c < Len(ch[InsertOrder[cur.t]])
    THEN [t |-> cur.t, c |-> cur.c + 1]
    ELSE [t |-> FirstTableFrom(ch, cur.t + 1), c |-> 1]

NoCursor == [t |-> 0, c |-> 0]

\* the statement the loops issue at the cursor, and await
IssueAt(ch, cur) ==
    IF cur.t > Len(InsertOrder) THEN {COMMIT}
    ELSE {INSERT_INTO(InsertOrder[cur.t], ch[InsertOrder[cur.t]][cur.c])}

PcAt(cur) == IF cur.t > Len(InsertOrder) THEN "commit" ELSE "insert"

(***************************************************************************)
(* The calls.                                                              *)
(***************************************************************************)
Init(P) ==
    /\ db = "null"
    /\ store = EmptyTables
    /\ txnOpen = FALSE
    /\ journal = EmptyTables
    /\ pc = [p \in P |-> "idle"]
    /\ op = [p \in P |-> "none"]
    /\ busStopsData = [p \in P |-> <<>>]
    /\ chunks = [p \in P |-> NoChunks]
    /\ cursor = [p \in P |-> NoCursor]
    /\ pending = [p \in P |-> {}]
    /\ count = [p \in P |-> 0]
    /\ insertError = [p \in P |-> NoError]
    /\ result = [p \in P |-> NoResult]
    /\ log = [p \in P |-> <<>>]
    /\ atCall = [p \in P |-> EmptyTables]
    /\ atBegin = [p \in P |-> EmptyTables]
    /\ afterRefresh = "no"
    /\ query = [p \in P |-> NoQuery]
    /\ stopCode = [p \in P |-> NoCode]
    /\ returned = [p \in P |-> <<>>]
    /\ previous = "none"

Settled(p, name, outcome) ==
    log' = [log EXCEPT ![p] = Append(@, Entry(name, outcome))]

Has(p, name, outcome) ==
    \E i \in 1..Len(log[p]) : log[p][i] = Entry(name, outcome)

\* the method ends: it returns or throws r
Ends(p, r) ==
    /\ pc' = [pc EXCEPT ![p] = "done"]
    /\ result' = [result EXCEPT ![p] = r]
    /\ pending' = [pending EXCEPT ![p] = {}]

\* the call is a refresh whose three DELETEs succeeded and whose reload has
\* not committed
Unloaded(p) ==
    /\ op[p] = "refresh"
    /\ Has(p, <<"DELETE", "bus_stops">>, "ok")
    /\ ~Has(p, <<"COMMIT", "-">>, "ok")

\* the method ends by an error e raised inside fetchAndStoreBusData or
\* ensureDataPopulated
Fails(p, e) ==
    /\ Ends(p, Raise(op[p], e))
    /\ afterRefresh' = IF Unloaded(p) THEN "pending" ELSE afterRefresh

\* a faulty service that holds a lock: a method starts only when no other
\* call is in flight
CanEnterExclusive(p) == \A q \in DOMAIN pc : pc[q] = "idle"

\* the methods (lines 11, 35, 184, 200, 231) take no lock and keep no
\* in-flight flag: a caller that is not inside a call can start one
CanEnter(p) == pc[p] = "idle"

\* a public method is invoked
Invoked(p, method) ==
    /\ CanEnter(p)
    /\ op' = [op EXCEPT ![p] = method]
    /\ atCall' = [atCall EXCEPT ![p] = Committed]
    /\ afterRefresh' = IF afterRefresh = "pending"
                       THEN (CASE method = "refresh" -> "no"
                               [] method \in {"search", "info"} -> "pending"
                               [] OTHER              -> "observed")
                       ELSE afterRefresh
    /\ previous' = IF method \in {"ensure", "init"} THEN previous ELSE "none"

\* init(): line 14 awaits Database.load
CallInit(p) ==
    /\ Invoked(p, "init")
    /\ pc' = [pc EXCEPT ![p] = "load"]
    /\ UNCHANGED <<db, store, txnOpen, journal, busStopsData, chunks, cursor,
                   pending, count, insertError, result, log, atBegin, query,
                   stopCode, returned>>

\* ensureDataPopulated(): line 38 issues the count query; on a service that
\* was never initialised `this.db.select` is a TypeError, rethrown at line 58
EnterEnsure(p) ==
    IF db = "null"
    THEN /\ pc' = [pc EXCEPT ![p] = "done"]
         /\ result' = [result EXCEPT ![p] = Thrown(TypeError)]
         /\ UNCHANGED pending
    ELSE /\ pc' = [pc EXCEPT ![p] = "count"]
         /\ pending' = [pending EXCEPT ![p] = {SELECT_COUNT}]
         /\ UNCHANGED result

CallEnsure(p) ==
    /\ Invoked(p, "ensure")
    /\ EnterEnsure(p)
    /\ UNCHANGED <<db, store, txnOpen, journal, busStopsData, chunks, cursor,
                   count, insertError, log, atBegin, query, stopCode, returned>>

\* Database.load settles (line 14); on success init calls
\* ensureDataPopulated (line 18), on failure it returns {success: false}
LoadSettles(p) ==
    /\ pc[p] = "load"
    /\ \/ /\ db' = "connected"
          /\ Settled(p, <<"Database.load", "-">>, "ok")
          /\ pc' = [pc EXCEPT ![p] = "count"]
          /\ pending' = [pending EXCEPT ![p] = {SELECT_COUNT}]
          /\ UNCHANGED <<result, afterRefresh>>
       \/ /\ Settled(p, <<"Database.load", "-">>, "error")
          /\ Fails(p, <<"Database.load", "-">>)
          /\ UNCHANGED db
    /\ UNCHANGED <<store, txnOpen, journal, op, busStopsData, chunks, cursor,
                   count, insertError, atCall, atBegin, query, stopCode, returned, previous>>

\* a faulty test that takes every count for zero
IsEmptyCountAlways(n) == n >= 0

\* line 41: `count === 0`
IsEmptyCount(n) == n = 0

\* the count query settles (lines 38-54)
CountSettles(p) ==
    /\ pc[p] = "count"
    /\ \E s \in pending[p], o \in {"ok", "error"} :
          /\ Execute(s, o)
          /\ Settled(p, StmtName(s), o)
          /\ IF o = "ok"
             THEN /\ count' = [count EXCEPT ![p] = Len(store.bus_stops)]
                  /\ IF IsEmptyCount(Len(store.bus_stops))
                     THEN /\ pc' = [pc EXCEPT ![p] = "fetch"]
                          /\ pending' = [pending EXCEPT ![p] = {}]
                          /\ UNCHANGED result
                     ELSE Ends(p, Existing(Len(store.bus_stops)))
                  /\ UNCHANGED afterRefresh
             ELSE /\ Fails(p, StmtName(s))
                  /\ UNCHANGED count
    /\ UNCHANGED <<db, op, busStopsData, chunks, cursor, insertError, atCall,
                   atBegin, query, stopCode, returned, previous>>

\* a faulty load that takes a failed fetch for an empty payload and goes on
FetchRejectedSwallowed(p) ==
    /\ Settled(p, <<"fetch", "-">>, "error")
    /\ pc' = [pc EXCEPT ![p] = "begin"]
    /\ pending' = [pending EXCEPT ![p] = {BEGIN_TRANSACTION}]
    /\ UNCHANGED <<busStopsData, result, afterRefresh>>

\* the awaited invoke rejects (line 81): the error reaches the catch of line
\* 178, which rethrows it
FetchRejected(p) ==
    /\ Settled(p, <<"fetch", "-">>, "error")
    /\ Fails(p, <<"fetch", "-">>)
    /\ UNCHANGED busStopsData

\* invoke('fetch_bus_data_from_api') settles (lines 81-84): with a payload,
\* and BEGIN TRANSACTION is issued, or with an error
FetchSettles(p, Data) ==
    /\ pc[p] = "fetch"
    /\ \/ \E d \in Data :
             /\ busStopsData' = [busStopsData EXCEPT ![p] = d]
             /\ Settled(p, <<"fetch", "-">>, "ok")
             /\ pc' = [pc EXCEPT ![p] = "begin"]
             /\ pending' = [pending EXCEPT ![p] = {BEGIN_TRANSACTION}]
             /\ UNCHANGED <<result, afterRefresh>>
       \/ FetchRejected(p)
    /\ UNCHANGED <<db, store, txnOpen, journal, op, chunks, cursor, count,
                   insertError, atCall, atBegin, query, stopCode, returned, previous>>

\* a faulty catch block that issues nothing
OnCatchNothing == {}

\* a faulty catch block that commits what was written
OnCatchCommit == {COMMIT}

\* line 175: what the catch block issues, and awaits
OnCatch == {ROLLBACK}

\* the catch of line 173: the error is kept and ROLLBACK is issued
Caught(p, e) ==
    /\ insertError' = [insertError EXCEPT ![p] = e]
    /\ pending' = [pending EXCEPT ![p] = OnCatch]
    /\ pc' = [pc EXCEPT ![p] = "rollback"]

\* BEGIN settles (line 84); inside the transaction the batches are built
\* and chunked (lines 87-145) and the first INSERT, or the COMMIT if there is
\* no row, is issued; an error thrown while the batches are built is caught
\* at line 173
BeginSettles(p) ==
    /\ pc[p] = "begin"
    /\ \E s \in pending[p], o \in {"ok", "error"} :
          /\ Execute(s, o)
          /\ Settled(p, StmtName(s), o)
          /\ IF o = "ok" /\ NormalisationThrows(busStopsData[p])
             THEN /\ Caught(p, TypeError)
                  /\ atBegin' = [atBegin EXCEPT ![p] = store]
                  /\ UNCHANGED <<chunks, cursor, result, afterRefresh>>
             ELSE IF o = "ok"
             THEN LET ch  == ChunksOf(busStopsData[p])
                      cur == NextCursor(ch, NoCursor)
                  IN /\ chunks' = [chunks EXCEPT ![p] = ch]
                     /\ cursor' = [cursor EXCEPT ![p] = cur]
                     /\ pending' = [pending EXCEPT ![p] = IssueAt(ch, cur)]
                     /\ pc' = [pc EXCEPT ![p] = PcAt(cur)]
                     /\ atBegin' = [atBegin EXCEPT ![p] = store]
                     /\ UNCHANGED <<result, afterRefresh, insertError>>
             ELSE /\ Fails(p, StmtName(s))
                  /\ UNCHANGED <<chunks, cursor, atBegin, insertError>>
    /\ UNCHANGED <<db, op, busStopsData, count, atCall, query, stopCode, returned, previous>>

\* one INSERT settles (lines 146-166); the next chunk, or COMMIT, is issued
InsertSettles(p) ==
    /\ pc[p] = "insert"
    /\ \E s \in pending[p], o \in {"ok", "error", "fatal"} :
          /\ Execute(s, o)
          /\ Settled(p, StmtName(s), o)
          /\ IF o = "ok"
             THEN LET cur == NextCursor(chunks[p], cursor[p])
                  IN /\ cursor' = [cursor EXCEPT ![p] = cur]
                     /\ pending' = [pending EXCEPT ![p] = IssueAt(chunks[p], cur)]
                     /\ pc' = [pc EXCEPT ![p] = PcAt(cur)]
                     /\ UNCHANGED insertError
             ELSE /\ Caught(p, StmtName(s))
                  /\ UNCHANGED cursor
    /\ UNCHANGED <<db, op, busStopsData, chunks, count, result, atCall, atBegin,
                   afterRefresh, query, stopCode, returned, previous>>

\* COMMIT settles (lines 169-171): the method returns busStopCount
CommitSettles(p) ==
    /\ pc[p] = "commit"
    /\ \E s \in pending[p], o \in {"ok", "error", "fatal"} :
          /\ Execute(s, o)
          /\ Settled(p, StmtName(s), o)
          /\ IF o = "ok"
             THEN /\ Ends(p, Loaded(op[p], busStopCount(busStopsData[p])))
                  /\ UNCHANGED insertError
             ELSE /\ Caught(p, StmtName(s))
                  /\ UNCHANGED result
    /\ UNCHANGED <<db, op, busStopsData, chunks, cursor, count, atCall, atBegin,
                   afterRefresh, query, stopCode, returned, previous>>

\* ROLLBACK settles (lines 175-176): `throw insertError` is reached only when
\* the awaited ROLLBACK did not throw
RollbackSettles(p) ==
    /\ pc[p] = "rollback"
    /\ \E s \in pending[p], o \in {"ok", "error"} :
          /\ Execute(s, o)
          /\ Settled(p, StmtName(s), o)
          /\ Fails(p, IF o = "ok" THEN insertError[p] ELSE StmtName(s))
    /\ UNCHANGED <<db, op, busStopsData, chunks, cursor, count, insertError,
                   atCall, atBegin, query, stopCode, returned, previous>>

\* refreshData(): line 233 issues the first DELETE
CallRefresh(p) ==
    /\ Invoked(p, "refresh")
    /\ IF db = "null"
       THEN /\ pc' = [pc EXCEPT ![p] = "done"]
            /\ result' = [result EXCEPT ![p] = Thrown(TypeError)]
            /\ UNCHANGED <<pending, cursor>>
       ELSE /\ pc' = [pc EXCEPT ![p] = "delete"]
            /\ cursor' = [cursor EXCEPT ![p] = [t |-> 1, c |-> 0]]
            /\ pending' = [pending EXCEPT ![p] = {DELETE_FROM(DeleteOrder[1])}]
            /\ UNCHANGED result
    /\ UNCHANGED <<db, store, txnOpen, journal, busStopsData, chunks, count,
                   insertError, log, atBegin, query, stopCode, returned>>

\* one DELETE settles (lines 233-236); the next DELETE is issued, or
\* fetchAndStoreBusData is called
DeleteSettles(p) ==
    /\ pc[p] = "delete"
    /\ \E s \in pending[p], o \in {"ok", "error"} :
          /\ Execute(s, o)
          /\ Settled(p, StmtName(s), o)
          /\ IF o = "ok"
             THEN /\ IF cursor[p].t < Len(DeleteOrder)
                     THEN /\ cursor' = [cursor EXCEPT ![p] = [t |-> cursor[p].t + 1, c |-> 0]]
                          /\ pending' = [pending EXCEPT ![p] =
                                            {DELETE_FROM(DeleteOrder[cursor[p].t + 1])}]
                          /\ UNCHANGED pc
                     ELSE /\ cursor' = [cursor EXCEPT ![p] = NoCursor]
                          /\ pending' = [pending EXCEPT ![p] = {}]
                          /\ pc' = [pc EXCEPT ![p] = "fetch"]
                  /\ UNCHANGED <<result, afterRefresh>>
             ELSE /\ Fails(p, StmtName(s))
                  /\ UNCHANGED cursor
    /\ UNCHANGED <<db, op, busStopsData, chunks, count, insertError, atCall,
                   atBegin, query, stopCode, returned, previous>>

\* searchBusStops(query): lines 185-189.  A query that is missing or shorter
\* than two characters returns [] at once; otherwise the SELECT is issued (on
\* a service never initialised `this.db.select` is a TypeError)
CallSearch(p, q) ==
    /\ Invoked(p, "search")
    /\ query' = [query EXCEPT ![p] = q]
    /\ IF TooShort(q)
       THEN /\ pc' = [pc EXCEPT ![p] = "done"]
            /\ result' = [result EXCEPT ![p] = ReturnedRows(0)]
            /\ UNCHANGED pending
       ELSE IF db = "null"
       THEN /\ pc' = [pc EXCEPT ![p] = "done"]
            /\ result' = [result EXCEPT ![p] = Thrown(TypeError)]
            /\ UNCHANGED pending
       ELSE /\ pc' = [pc EXCEPT ![p] = "search"]
            /\ pending' = [pending EXCEPT ![p] = {SELECT_SEARCH}]
            /\ UNCHANGED result
    /\ UNCHANGED <<db, store, txnOpen, journal, busStopsData, chunks, cursor,
                   count, insertError, log, atBegin, stopCode,
                   returned>>

\* the SELECT settles (lines 189-197): its rows are returned, or its error
\* leaves the method
SearchSettles(p) ==
    /\ pc[p] = "search"
    /\ \E s \in pending[p], o \in {"ok", "error"} :
          /\ Execute(s, o)
          /\ Settled(p, StmtName(s), o)
          /\ IF o = "ok"
             THEN \E r \in SearchResults(store, query[p]) :
                     /\ returned' = [returned EXCEPT ![p] = r]
                     /\ Ends(p, ReturnedRows(Len(r)))
                     /\ UNCHANGED afterRefresh
             ELSE /\ Fails(p, StmtName(s))
                  /\ UNCHANGED returned
    /\ UNCHANGED <<db, op, busStopsData, chunks, cursor, count, insertError,
                   atCall, atBegin, query, stopCode,
                   previous>>

\* getBusStopInfo(busStopCode): lines 201-204 issue the SELECT; on a service
\* that was never initialised `this.db.select` raises a TypeError
CallInfo(p, code) ==
    /\ Invoked(p, "info")
    /\ stopCode' = [stopCode EXCEPT ![p] = code]
    /\ IF db = "null"
       THEN /\ pc' = [pc EXCEPT ![p] = "done"]
            /\ result' = [result EXCEPT ![p] = Thrown(TypeError)]
            /\ UNCHANGED pending
       ELSE /\ pc' = [pc EXCEPT ![p] = "info"]
            /\ pending' = [pending EXCEPT ![p] = {SELECT_INFO}]
            /\ UNCHANGED result
    /\ UNCHANGED <<db, store, txnOpen, journal, busStopsData, chunks, cursor,
                   count, insertError, log, atBegin, query, returned>>

\* the SELECT settles (lines 201-205): `result[0] || null` is returned, or
\* the SELECT's error leaves the method
InfoSettles(p) ==
    /\ pc[p] = "info"
    /\ \E s \in pending[p], o \in {"ok", "error"} :
          /\ Execute(s, o)
          /\ Settled(p, StmtName(s), o)
          /\ IF o = "ok"
             THEN LET rows == Lookup(store, stopCode[p])
                  IN /\ returned' = [returned EXCEPT ![p] =
                                       IF rows = <<>> THEN <<>> ELSE <<rows[1]>>]
                     /\ Ends(p, FirstOrNull(rows))
                     /\ UNCHANGED afterRefresh
             ELSE /\ Fails(p, StmtName(s))
                  /\ UNCHANGED returned
    /\ UNCHANGED <<db, op, busStopsData, chunks, cursor, count, insertError,
                   atCall, atBegin, query, stopCode, previous>>

\* the caller has the result; the call's frame is gone
Returns(p) ==
    /\ pc[p] = "done"
    /\ pc' = [pc EXCEPT ![p] = "idle"]
    /\ op' = [op EXCEPT ![p] = "none"]
    /\ busStopsData' = [busStopsData EXCEPT ![p] = <<>>]
    /\ chunks' = [chunks EXCEPT ![p] = NoChunks]
    /\ cursor' = [cursor EXCEPT ![p] = NoCursor]
    /\ count' = [count EXCEPT ![p] = 0]
    /\ insertError' = [insertError EXCEPT ![p] = NoError]
    /\ result' = [result EXCEPT ![p] = NoResult]
    /\ log' = [log EXCEPT ![p] = <<>>]
    /\ atCall' = [atCall EXCEPT ![p] = EmptyTables]
    /\ atBegin' = [atBegin EXCEPT ![p] = EmptyTables]
    /\ afterRefresh' = IF afterRefresh = "observed" THEN "no" ELSE afterRefresh
    /\ query' = [query EXCEPT ![p] = NoQuery]
    /\ stopCode' = [stopCode EXCEPT ![p] = NoCode]
    /\ returned' = [returned EXCEPT ![p] = <<>>]
    /\ previous' = Completed(op[p], result[p])
    /\ UNCHANGED <<db, store, txnOpen, journal, pending>>

\* the process is interrupted and started again: every call in flight is
\* lost, the service is constructed anew (this.db = null), and the store
\* keeps what was committed
Interrupt(P) ==
    /\ \E p \in P : pc[p] # "idle"
    /\ db' = "null"
    /\ store' = Committed
    /\ txnOpen' = FALSE
    /\ journal' = EmptyTables
    /\ pc' = [p \in P |-> "idle"]
    /\ op' = [p \in P |-> "none"]
    /\ busStopsData' = [p \in P |-> <<>>]
    /\ chunks' = [p \in P |-> NoChunks]
    /\ cursor' = [p \in P |-> NoCursor]
    /\ pending' = [p \in P |-> {}]
    /\ count' = [p \in P |-> 0]
    /\ insertError' = [p \in P |-> NoError]
    /\ result' = [p \in P |-> NoResult]
    /\ log' = [p \in P |-> <<>>]
    /\ atCall' = [p \in P |-> EmptyTables]
    /\ atBegin' = [p \in P |-> EmptyTables]
    /\ afterRefresh' = IF \E p \in P : Unloaded(p) THEN "pending"
                       ELSE IF afterRefresh = "observed" THEN "no"
                       ELSE afterRefresh
    /\ query' = [p \in P |-> NoQuery]
    /\ stopCode' = [p \in P |-> NoCode]
    /\ returned' = [p \in P |-> <<>>]
    /\ previous' = "none"

Step(p, Data) ==
    \/ CallInit(p)
    \/ CallEnsure(p)
    \/ CallRefresh(p)
    \/ LoadSettles(p)
    \/ CountSettles(p)
    \/ FetchSettles(p, Data)
    \/ BeginSettles(p)
    \/ InsertSettles(p)
    \/ CommitSettles(p)
    \/ RollbackSettles(p)
    \/ DeleteSettles(p)
    \/ (\E q \in Queries : CallSearch(p, q))
    \/ SearchSettles(p)
    \/ (\E code \in Codes : CallInfo(p, code))
    \/ InfoSettles(p)
    \/ Returns(p)

\* the caller serialises: one call at a time
Serial == {1}

Next == (\E p \in Serial : Step(p, Payloads)) \/ Interrupt(Serial)

Spec == Init(Serial) /\ [][Next]_vars

\* the same service, fed the payloads that exercise the normaliser
NextInputs == (\E p \in Serial : Step(p, InputPayloads)) \/ Interrupt(Serial)

SpecInputs == Init(Serial) /\ [][NextInputs]_vars

\* two callers that do not serialise: their calls interleave at every await
Pair == {1, 2}

\* the payloads the two callers fetch: one stop, "1" or "2", no bus lines
PairPayloads ==
    { data \in KeyPayloads : Len(data) = 1 /\ data[1].key \in {<<"1">>, <<"2">>} }

\* the steps of init and ensureDataPopulated
StepEnsure(p, Data) ==
    \/ CallInit(p)
    \/ CallEnsure(p)
    \/ LoadSettles(p)
    \/ CountSettles(p)
    \/ FetchSettles(p, Data)
    \/ BeginSettles(p)
    \/ InsertSettles(p)
    \/ CommitSettles(p)
    \/ RollbackSettles(p)
    \/ Returns(p)

NextPair == (\E p \in Pair : StepEnsure(p, PairPayloads)) \/ Interrupt(Pair)

SpecPair == Init(Pair) /\ [][NextPair]_vars

(***************************************************************************)
(* Properties of the batch write.                                          *)
(***************************************************************************)
\* the entries of the call's log from position i on
From(p, i) == SubSeq(log[p], i, Len(log[p]))

\* an INSERT of the call failed
InsertFailed(p) ==
    \E i \in 1..Len(log[p]) :
       log[p][i].call[1] = "INSERT" /\ log[p][i].outcome # "ok"

\* the call's ROLLBACK settled
RolledBack(p) ==
    \E i \in 1..Len(log[p]) : log[p][i].call[1] = "ROLLBACK"

\* C1: once an INSERT of the load has failed, the catch block issues
\* ROLLBACK, and when that statement has settled the connection is outside
\* any transaction and the three tables are what they were when BEGIN
\* succeeded: no row inserted since is left.
C1_RollbackRestores ==
    \A p \in DOMAIN pc :
       InsertFailed(p) =>
          \/ /\ pc[p] = "rollback"
             /\ pending[p] = {ROLLBACK}
             /\ ~RolledBack(p)
          \/ /\ pc[p] = "done"
             /\ RolledBack(p)
             /\ ~txnOpen
             /\ store = atBegin[p]
             /\ Committed = atBegin[p]

\* a later chunk failed after earlier chunks had been inserted, and the
\* ROLLBACK took the inserted rows away
C1_Witness ==
    \E p \in DOMAIN pc :
       /\ pc[p] = "done"
       /\ InsertFailed(p)
       /\ Has(p, <<"INSERT", "bus_stops">>, "ok")
       /\ Has(p, <<"INSERT", "bus_times">>, "error")
       /\ Has(p, <<"ROLLBACK", "-">>, "ok")
       /\ store = atBegin[p]

\* the error the caller receives: thrown, or carried by init's message
ErrorReceived(p) == result[p].error

\* C2: when an INSERT of the load failed, the error that reaches the caller
\* is that INSERT's error, however the ROLLBACK ended.
C2_OriginalFailurePropagates ==
    \A p \in DOMAIN pc :
       (pc[p] = "done" /\ InsertFailed(p)) => ErrorReceived(p)[1] = "INSERT"

\* how many entries of the call's log are the call `name` (any outcome)
Issued(p, name) == Cardinality({i \in 1..Len(log[p]) : log[p][i].call = name})

\* how many of them succeeded
Succeeded(p, name) ==
    Cardinality({i \in 1..Len(log[p]) : log[p][i] = Entry(name, "ok")})

\* the position of the call's BEGIN in its log (0: none yet)
BeginAt(p) ==
    IF Issued(p, <<"BEGIN", "-">>) = 0 THEN 0
    ELSE CHOOSE i \in 1..Len(log[p]) : log[p][i].call = <<"BEGIN", "-">>

\* the tables with the three batches of a payload added
WithPayload(tables, data) ==
    [t \in {"bus_stops", "bus_routes", "bus_times"} |-> tables[t] \o Batches(data)[t]]

\* the number of chunks n rows need
ChunksNeeded(n) == (n + ChunkSize - 1) \div ChunkSize

Rep(e, n) == [i \in 1..n |-> e]

\* the statements of a load that succeeds, in order
WholeLoad(data) ==
    <<Entry(<<"BEGIN", "-">>, "ok")>>
    \o Rep(Entry(<<"INSERT", "bus_stops">>, "ok"), ChunksNeeded(Len(stopsToInsert(data))))
    \o Rep(Entry(<<"INSERT", "bus_routes">>, "ok"), ChunksNeeded(Len(routesToInsert(data))))
    \o Rep(Entry(<<"INSERT", "bus_times">>, "ok"), ChunksNeeded(Len(timesToInsert(data))))
    \o <<Entry(<<"COMMIT", "-">>, "ok")>>

\* the call returned from a load that succeeded
LoadReturned(p) ==
    pc[p] = "done" /\ result[p].kind = "return" /\ result[p].text \in {"loaded", "count"}

\* C3: one load issues one BEGIN, before its first INSERT, and one COMMIT;
\* COMMIT is issued only when every chunk of the three batches has been
\* inserted, and nothing is inserted after it; so what is committed is the
\* tables as they were at BEGIN, either with no row of the payload or (once
\* COMMIT succeeded) with all of them.
C3_OneTransactionPerLoad ==
    \A p \in DOMAIN pc :
       LET begin == BeginAt(p)
       IN /\ Issued(p, <<"BEGIN", "-">>) <= 1
          /\ Issued(p, <<"COMMIT", "-">>) <= 1
          /\ \A i \in 1..Len(log[p]) :
                log[p][i].call[1] \in {"INSERT", "COMMIT"} =>
                   /\ begin \in 1..(i - 1)
                   /\ log[p][begin].outcome = "ok"
          /\ \A i \in 1..Len(log[p]) :
                log[p][i].call[1] = "COMMIT" =>
                   \A j \in (i + 1)..Len(log[p]) : log[p][j].call[1] # "INSERT"
          /\ (COMMIT \in pending[p] /\ pc[p] = "commit") =>
                store = WithPayload(atBegin[p], busStopsData[p])
          /\ Has(p, <<"BEGIN", "-">>, "ok") =>
                IF Has(p, <<"COMMIT", "-">>, "ok")
                THEN Committed = WithPayload(atBegin[p], busStopsData[p])
                ELSE Committed = atBegin[p]
          /\ LoadReturned(p) =>
                From(p, begin) = WholeLoad(busStopsData[p])

\* a load of three stops with their lines and times, hence of several
\* chunks per table, has committed
C3_Witness ==
    \E p \in DOMAIN pc :
       /\ LoadReturned(p)
       /\ Succeeded(p, <<"INSERT", "bus_stops">>) >= 2
       /\ Succeeded(p, <<"INSERT", "bus_routes">>) >= 2
       /\ Succeeded(p, <<"INSERT", "bus_times">>) >= 2
       /\ Committed = WithPayload(atBegin[p], busStopsData[p])

\* stops before routes before schedule entries
DependencyRank(table) ==
    CASE table = "bus_stops" -> 1 [] table = "bus_routes" -> 2 [] table = "bus_times" -> 3

\* the INSERTs of the call, settled or in flight, in the order issued
InsertsIssued(p) ==
    SelectSeq([i \in 1..Len(log[p]) |-> log[p][i].call], LAMBDA c : c[1] = "INSERT")
    \o (IF \E s \in pending[p] : s.verb = "INSERT"
        THEN <<StmtName(CHOOSE s \in pending[p] : s.verb = "INSERT")>> ELSE <<>>)

\* C4: the INSERTs of a load are issued table by table in dependency order:
\* when a route chunk is issued every stop chunk has been inserted, when a
\* schedule-entry chunk is issued every route chunk has been; and a call has
\* at most one statement in flight.
C4_DependencyOrderSequential ==
    \A p \in DOMAIN pc :
       LET issued == InsertsIssued(p)
       IN /\ Cardinality(pending[p]) <= 1
          /\ \A i \in 1..(Len(issued) - 1) :
                DependencyRank(issued[i][2]) <= DependencyRank(issued[i + 1][2])
          /\ (\E i \in 1..Len(issued) : issued[i][2] = "bus_routes")
             => Succeeded(p, <<"INSERT", "bus_stops">>) = Len(chunks[p].bus_stops)
          /\ (\E i \in 1..Len(issued) : issued[i][2] = "bus_times")
             => /\ Succeeded(p, <<"INSERT", "bus_stops">>) = Len(chunks[p].bus_stops)
                /\ Succeeded(p, <<"INSERT", "bus_routes">>) = Len(chunks[p].bus_routes)

\* the second schedule-entry chunk is in flight after two stop chunks and two
\* route chunks
C4_Witness ==
    \E p \in DOMAIN pc :
       /\ pc[p] = "insert"
       /\ \E s \in pending[p] : s.verb = "INSERT" /\ s.table = "bus_times"
       /\ Succeeded(p, <<"INSERT", "bus_stops">>) = 2
       /\ Succeeded(p, <<"INSERT", "bus_routes">>) = 2
       /\ Succeeded(p, <<"INSERT", "bus_times">>) = 1

(***************************************************************************)
(* Properties of the stored data and of the two workflows.                 *)
(***************************************************************************)
\* every schedule entry's route is a route row, every route's stop is a stop
\* row (a NULL stop identifier names no row)
ReferentialIntegrity(tables) ==
    /\ \A i \in 1..Len(tables.bus_times) :
          \E j \in 1..Len(tables.bus_routes) :
             tables.bus_routes[j].route_id = tables.bus_times[i].route_id
    /\ \A i \in 1..Len(tables.bus_routes) :
          /\ ~tables.bus_routes[i].bus_stop_id.nan
          /\ \E j \in 1..Len(tables.bus_stops) :
                tables.bus_stops[j].bus_stop_id = tables.bus_routes[i].bus_stop_id

\* C5: referential integrity holds in every state of the store, inside a
\* load and inside the delete phase of a refresh too.
C5_ReferentialIntegrity == ReferentialIntegrity(store)

\* the position of the count query in the call's log (0: not settled)
CountAt(p) ==
    IF Issued(p, <<"SELECT COUNT", "-">>) = 0 THEN 0
    ELSE CHOOSE i \in 1..Len(log[p]) : log[p][i].call = <<"SELECT COUNT", "-">>

CountRead(p) == Has(p, <<"SELECT COUNT", "-">>, "ok")

\* C6: ensureDataPopulated reads the stop count before anything else; with a
\* count other than zero it fetches nothing and writes nothing, the store is
\* as it was, and it reports that count; with a count of zero it goes on to
\* the fetch, and when the load succeeds it reports the number of stop rows
\* the load added.
C6_PopulateOnlyWhenEmpty ==
    \A p \in DOMAIN pc :
       op[p] \in {"ensure", "init"} =>
          /\ \A i \in 1..Len(log[p]) :
                log[p][i].call[1] \notin {"SELECT COUNT", "Database.load"} =>
                   (CountRead(p) /\ CountAt(p) < i)
          /\ (CountRead(p) /\ count[p] # 0) =>
                /\ pc[p] = "done"
                /\ CountAt(p) = Len(log[p])
                /\ count[p] = Len(atCall[p].bus_stops)
                /\ result[p] = Outcome("true", "existing", count[p], NoError)
                /\ store = atCall[p]
                /\ Committed = atCall[p]
          /\ (CountRead(p) /\ count[p] = 0) =>
                /\ atCall[p].bus_stops = <<>>
                /\ pc[p] = "done" => Issued(p, <<"fetch", "-">>) = 1
                /\ LoadReturned(p) =>
                      /\ From(p, BeginAt(p)) = WholeLoad(busStopsData[p])
                      /\ store = WithPayload(atCall[p], busStopsData[p])
                      /\ result[p] = Outcome("true", "loaded",
                                             Len(store.bus_stops) - Len(atCall[p].bus_stops),
                                             NoError)

\* a call found stops and returned the existing count
C6_WitnessExisting ==
    \E p \in DOMAIN pc :
       /\ op[p] = "ensure" /\ pc[p] = "done"
       /\ CountRead(p) /\ count[p] = 3
       /\ result[p].text = "existing"

\* a call found no stop, loaded a payload of two stops and reported two
C6_Witness ==
    \E p \in DOMAIN pc :
       /\ op[p] = "ensure" /\ LoadReturned(p)
       /\ CountRead(p) /\ count[p] = 0
       /\ result[p] = Outcome("true", "loaded", 2, NoError)
       /\ Len(store.bus_stops) = 2

\* C7: refreshData deletes the schedule entries, then the routes, then the
\* stops, and calls the provider only when the three DELETEs have succeeded;
\* when it returns, the store holds exactly the rows normalised from the
\* payload it fetched and it returns the number of stops of that payload.
C7_RefreshReplaces ==
    \A p \in DOMAIN pc :
       op[p] = "refresh" =>
          /\ \A i \in 1..Len(log[p]) :
                IF log[p][i].call[1] = "DELETE"
                THEN /\ i <= 3
                     /\ log[p][i].call[2] = <<"bus_times", "bus_routes", "bus_stops">>[i]
                     /\ \A j \in 1..(i - 1) : log[p][j].outcome = "ok"
                ELSE /\ i > 3
                     /\ \A j \in 1..3 : log[p][j].outcome = "ok"
          /\ pc[p] = "fetch" => store = EmptyTables
          /\ LoadReturned(p) =>
                /\ store = Batches(busStopsData[p])
                /\ Committed = store
                /\ result[p] = ReturnedCount(Len(busStopsData[p]))

\* a refresh replaced a stored dataset by a different, non-empty one
C7_Witness ==
    \E p \in DOMAIN pc :
       /\ op[p] = "refresh" /\ LoadReturned(p)
       /\ atCall[p].bus_times # <<>>
       /\ store.bus_times # <<>>
       /\ store # atCall[p]
       /\ store = Batches(busStopsData[p])

\* a lower-level call of the method failed
SomeFailure(p) ==
    \/ \E i \in 1..Len(log[p]) : log[p][i].outcome # "ok"
    \/ insertError[p] # NoError

\* the calls of the method that failed
FailedCalls(p) == {log[p][i].call : i \in {j \in 1..Len(log[p]) : log[p][j].outcome # "ok"}}

Structured(r) == r.kind = "return" /\ r.success \in {"true", "false"}

C9_EmptyUntilRepopulated ==
    /\ afterRefresh = "pending" =>
          (store = EmptyTables /\ Committed = EmptyTables /\ ~txnOpen)
    /\ \A p \in DOMAIN pc :
          /\ (Unloaded(p) /\ pc[p] = "done") =>
                /\ result[p].kind = "throw"
                /\ store = EmptyTables
                /\ afterRefresh = "pending"
          /\ Unloaded(p) =>
                /\ Issued(p, <<"fetch", "-">>) <= 1
                /\ Issued(p, <<"BEGIN", "-">>) <= 1
                /\ (SomeFailure(p) => pc[p] \in {"rollback", "done"})
          /\ (afterRefresh = "observed" /\ op[p] \in {"ensure", "init"} /\ CountRead(p)) =>
                /\ count[p] = 0
                /\ result[p].text # "existing"
                /\ pc[p] = "done" => Issued(p, <<"fetch", "-">>) = 1
                /\ LoadReturned(p) => store = Batches(busStopsData[p])

\* after a refresh that lost its dataset, the next ensureDataPopulated has
\* read a count of zero and loaded a payload
C9_Witness ==
    \E p \in DOMAIN pc :
       /\ afterRefresh = "observed"
       /\ op[p] = "ensure"
       /\ LoadReturned(p)
       /\ count[p] = 0
       /\ store.bus_stops # <<>>

\* C10: a refresh that fails inside its delete phase leaves the three tables
\* either as they were when it was called or all empty.
C10_DeletePhaseAtomic ==
    \A p \in DOMAIN pc :
       (op[p] = "refresh" /\ pc[p] = "done" /\ result[p].error[1] = "DELETE")
          => (store = atCall[p] \/ store = EmptyTables)

(***************************************************************************)
(* Properties of the fetch and of the normaliser.                          *)
(***************************************************************************)
\* the provider fetch of the call failed
FetchFailed(p) == Has(p, <<"fetch", "-">>, "error")

\* C11: when the provider fetch fails the load ends there: no BEGIN and no
\* INSERT is issued, before or after; no transaction is open; the store is
\* what it was when the fetch was issued (as the method found it, or empty
\* after the DELETEs of a refresh); and the caller receives the fetch failure
\* (thrown, or as init's message).
C11_FetchFailureWritesNothing ==
    \A p \in DOMAIN pc :
       FetchFailed(p) =>
          /\ pc[p] = "done"
          /\ pending[p] = {}
          /\ log[p][Len(log[p])] = Entry(<<"fetch", "-">>, "error")
          /\ \A i \in 1..Len(log[p]) : log[p][i].call[1] \notin {"BEGIN", "INSERT", "COMMIT"}
          /\ ~txnOpen
          /\ store = (IF op[p] = "refresh" THEN EmptyTables ELSE atCall[p])
          /\ Committed = store
          /\ ErrorReceived(p) = <<"fetch", "-">>
          /\ result[p] = (IF op[p] = "init"
                          THEN Outcome("false", "error", 0, <<"fetch", "-">>)
                          ELSE Thrown(<<"fetch", "-">>))

\* the fetch of an ensureDataPopulated failed on an empty store, and the
\* store is still empty
C11_Witness ==
    \E p \in DOMAIN pc :
       /\ op[p] = "ensure" /\ pc[p] = "done"
       /\ FetchFailed(p)
       /\ result[p] = Thrown(<<"fetch", "-">>)
       /\ store = EmptyTables

\* the text is a decimal numeral
IsNumeral(k) == k # <<>> /\ \A i \in 1..Len(k) : IsDigit(k[i])

\* the payload the call fetched has a stop key that is not numeric
NonNumericKey(p) ==
    /\ Has(p, <<"fetch", "-">>, "ok")
    /\ \E i \in 1..Len(busStopsData[p]) : ~IsNumeral(busStopsData[p][i].key)

\* C12: a load whose payload has a stop key that is not numeric fails: it
\* never commits, so no row of the payload is persisted, and the call ends
\* by an error.
C12_NonNumericKeyFailsLoad ==
    \A p \in DOMAIN pc :
       NonNumericKey(p) =>
          /\ Succeeded(p, <<"COMMIT", "-">>) = 0
          /\ pc[p] = "done" =>
                (result[p].kind = "throw" \/ result[p].success = "false")

\* the call has issued BEGIN (it is in flight, or it has settled)
BeginIssued(p) == BEGIN_TRANSACTION \in pending[p] \/ Issued(p, <<"BEGIN", "-">>) > 0

\* C13: when BEGIN is issued the three batches of the fetched payload have
\* been built and chunked; and for a payload on which the normaliser throws,
\* BEGIN is never issued, so that the failure meets no open transaction.
C13_NormalisedBeforeBegin ==
    \A p \in DOMAIN pc :
       BeginIssued(p) =>
          /\ ~NormalisationThrows(busStopsData[p])
          /\ chunks[p] = ChunksOf(busStopsData[p])

\* the distinct stop keys of a payload
StopKeysOf(data) == { data[i].key : i \in 1..Len(data) }

\* C14: a load that succeeds returns the number of stop rows it added to the
\* store, and that number is the number of distinct stop keys of its payload
\* (zero for the empty payload).
C14_CountIsStopsPersisted ==
    \A p \in DOMAIN pc :
       LoadReturned(p) =>
          /\ Committed = store
          /\ result[p].n = Len(store.bus_stops) - Len(atBegin[p].bus_stops)
          /\ result[p].n = Cardinality(StopKeysOf(busStopsData[p]))

\* a payload of two stops, one of them under a key that is not a canonical
\* numeral, was loaded and the load returned two
C14_Witness ==
    \E p \in DOMAIN pc :
       /\ LoadReturned(p)
       /\ StopKeysOf(busStopsData[p]) = { <<"2">>, <<"1", "A">> }
       /\ result[p].n = 2
       /\ Len(store.bus_stops) = 2

\* two keys of the payload parse to the same integer and the INSERT of the
\* stops was refused
C14_KeysCollide ==
    \E p \in DOMAIN pc :
       /\ StopKeysOf(busStopsData[p]) = { <<"1">>, <<"0", "1">> }
       /\ Has(p, <<"INSERT", "bus_stops">>, "error")

RECURSIVE Concat(_)
\* the rows of a sequence of chunks
Concat(chs) == IF chs = <<>> THEN <<>> ELSE Head(chs) \o Concat(Tail(chs))

\* the call has built its three batches
Built(p) == Has(p, <<"BEGIN", "-">>, "ok") /\ ~NormalisationThrows(busStopsData[p])

\* the first/last-bus field of a route record for a day class
DayField(route, D) ==
    CASE D = "wd" -> route.wd_flb [] D = "sat" -> route.sat_flb [] D = "sun" -> route.sun_flb

NoTime == {"undefined", ""}

\* the source record has a first and a last bus, both present and not empty
BothTimes(route, D) ==
    /\ DayField(route, D).own
    /\ DayField(route, D).fb \notin NoTime
    /\ DayField(route, D).lb \notin NoTime

\* the (stop, line, day class) triples of a payload that have both times
CompleteDays(data) ==
    UNION { { t \in {i} \X (1..Len(data[i].stop.buses)) \X {"wd", "sat", "sun"} :
                BothTimes(data[i].stop.buses[t[2]].route, t[3]) } :
            i \in 1..Len(data) }

\* the schedule entry of such a triple
EntryOf(data, t) ==
    LET line == data[t[1]].stop.buses[t[2]]
    IN [route_id    |-> data[t[1]].key \o <<"-">> \o line.num,
        day_of_week |-> t[3],
        first_bus   |-> DayField(line.route, t[3]).fb,
        last_bus    |-> DayField(line.route, t[3]).lb]

\* C15: the schedule-entry batch a load builds has an entry for a route and
\* a day class exactly when the route's record has, for that day class, a
\* first and a last bus that are both present and not empty, and the entry
\* carries these two times; there is no other entry, none for a record with
\* one time only, and none with a missing or empty time; and what a load
\* that succeeds adds to the store is that batch.
C15_EntryIffBothTimes ==
    \A p \in DOMAIN pc :
       Built(p) =>
          LET data  == busStopsData[p]
              built == Concat(chunks[p].bus_times)
          IN /\ \A t \in CompleteDays(data) :
                   \E r \in 1..Len(built) : built[r] = EntryOf(data, t)
             /\ \A r \in 1..Len(built) :
                   /\ \E t \in CompleteDays(data) : built[r] = EntryOf(data, t)
                   /\ built[r].first_bus \notin NoTime
                   /\ built[r].last_bus \notin NoTime
             /\ Len(built) = Cardinality(CompleteDays(data))
             /\ LoadReturned(p) => store.bus_times = atBegin[p].bus_times \o built

\* a record with a first bus only on weekdays and both times on Saturday
\* and Sunday was loaded: two entries, none for the weekday
C15_Witness ==
    \E p \in DOMAIN pc :
       /\ LoadReturned(p)
       /\ Len(busStopsData[p]) = 1
       /\ Len(busStopsData[p][1].stop.buses) = 1
       /\ busStopsData[p][1].stop.buses[1].route.wd_flb = Flb(TRUE, "0500", "undefined")
       /\ Len(store.bus_times) = 2
       /\ \A r \in 1..2 : store.bus_times[r].day_of_week \in {"sat", "sun"}

\* the (stop key, line number) pairs of a payload
LinesOf(data) ==
    UNION { { <<data[i].key, data[i].stop.buses[j].num>> :
                j \in 1..Len(data[i].stop.buses) } : i \in 1..Len(data) }

\* C16: the route rows a load builds are identified by the stop's key, a
\* hyphen and the line number, and two distinct (stop key, line number)
\* pairs of one payload never get the same route identifier.
C16_RouteIdInjective ==
    \A p \in DOMAIN pc :
       Built(p) =>
          LET data  == busStopsData[p]
              built == Concat(chunks[p].bus_routes)
          IN /\ { built[r].route_id : r \in 1..Len(built) }
                   = { l[1] \o <<"-">> \o l[2] : l \in LinesOf(data) }
             /\ \A l, m \in LinesOf(data) :
                   l # m => l[1] \o <<"-">> \o l[2] # m[1] \o <<"-">> \o m[2]

\* the chunk sizes compared
Sizes == 1..(ChunkSize + 2)

\* C17: for every chunk size from 1 up, chunkArray cuts a batch into
\* consecutive slices: their concatenation is the batch, each has at least
\* one row and at most `size` rows, there are ceil(length / size) of them,
\* and they hold the rows that slices of one row hold; the chunks a load
\* writes are those of its three batches, and a load that succeeds has added
\* to the store exactly the rows of the three batches, in order.
C17_ChunkingPreservesRows ==
    \A p \in DOMAIN pc :
       Built(p) =>
          /\ \A t \in {"bus_stops", "bus_routes", "bus_times"} :
                LET batch == Batches(busStopsData[p])[t]
                IN /\ Concat(chunks[p][t]) = batch
                   /\ \A size \in Sizes :
                         LET chs == chunkArray(batch, size)
                         IN /\ Concat(chs) = batch
                            /\ Concat(chs) = Concat(chunkArray(batch, 1))
                            /\ Len(chs) = (Len(batch) + size - 1) \div size
                            /\ \A c \in 1..Len(chs) : Len(chs[c]) \in 1..size
          /\ LoadReturned(p) =>
                \A t \in {"bus_stops", "bus_routes", "bus_times"} :
                   store[t] = atBegin[p][t] \o Concat(chunkArray(Batches(busStopsData[p])[t], 1))

\* a batch of three schedule entries was written in two chunks, the second
\* one shorter, and the load succeeded
C17_Witness ==
    \E p \in DOMAIN pc :
       /\ LoadReturned(p)
       /\ Len(chunks[p].bus_times) = 2
       /\ Len(chunks[p].bus_times[2]) < Len(chunks[p].bus_times[1])
       /\ Succeeded(p, <<"INSERT", "bus_times">>) = 2
       /\ Len(store.bus_times) = 3

(***************************************************************************)
(* Properties of calls that follow one another.                            *)
(***************************************************************************)
\* the call in flight is an ensureDataPopulated (alone or inside init) and
\* the call just before it was `method` and returned successfully
Follows(p, method) == previous = method /\ op[p] \in {"ensure", "init"}

\* the call has invoked the provider, or is about to
Fetches(p) == pc[p] = "fetch" \/ Issued(p, <<"fetch", "-">>) > 0

\* C18 as stated: the ensureDataPopulated that follows a refreshData that
\* returned never invokes the provider fetch.
C18_NoFetchAfterRefresh ==
    \A p \in DOMAIN pc : Follows(p, "refresh") => ~Fetches(p)

\* C18 as amended: the ensureDataPopulated that follows a refreshData that
\* returned after loading at least one stop never invokes the provider
\* fetch: it reads a count other than zero, reports the existing stops and
\* leaves the store alone; after a refreshData that loaded the empty payload
\* it reads zero and goes on to the fetch.
C18_NoFetchAfterLoadedRefresh ==
    \A p \in DOMAIN pc :
       Follows(p, "refresh") =>
          /\ store.bus_stops = atCall[p].bus_stops \/ Has(p, <<"BEGIN", "-">>, "ok")
          /\ IF atCall[p].bus_stops # <<>>
             THEN /\ ~Fetches(p)
                  /\ store = atCall[p]
                  /\ CountRead(p) =>
                        /\ count[p] = Len(atCall[p].bus_stops)
                        /\ result[p] = Existing(count[p])
             ELSE CountRead(p) => (count[p] = 0 /\ Fetches(p))

\* after a refresh that loaded two stops, ensureDataPopulated found them
\* and returned without a fetch
C18_Witness ==
    \E p \in DOMAIN pc :
       /\ Follows(p, "refresh") /\ op[p] = "ensure"
       /\ pc[p] = "done"
       /\ result[p] = Existing(2)
       /\ ~Fetches(p)

\* the provider payload is what it was for the call before: either nothing
\* is fetched, or the payload fetched is again the empty one that left the
\* store without stops
PayloadUnchanged(p) ==
    Has(p, <<"fetch", "-">>, "ok") => (atCall[p].bus_stops = <<>> /\ busStopsData[p] = <<>>)

\* the call has issued a statement that writes rows
Writes(p) ==
    \/ \E i \in 1..Len(log[p]) : log[p][i].call[1] \in {"INSERT", "DELETE"}
    \/ \E s \in pending[p] : s.verb \in {"INSERT", "DELETE"}

\* C19: an ensureDataPopulated (alone or inside init) that follows one that
\* succeeded, with the provider payload unchanged, issues no INSERT and no
\* DELETE and leaves the store as it found it, that is as the first call
\* left it; when the store has stops it does not even fetch.
C19_EnsureIdempotent ==
    \A p \in DOMAIN pc :
       (Follows(p, "ensure") /\ PayloadUnchanged(p)) =>
          /\ ~Writes(p)
          /\ store = atCall[p]
          /\ Committed = atCall[p]
          /\ atCall[p].bus_stops # <<>> =>
                /\ ~Fetches(p)
                /\ CountRead(p) => result[p] = Existing(Len(atCall[p].bus_stops))
          /\ LoadReturned(p) => result[p].n = 0

\* a second ensureDataPopulated found the two stops the first one loaded
C19_Witness ==
    \E p \in DOMAIN pc :
       /\ Follows(p, "ensure") /\ op[p] = "ensure"
       /\ pc[p] = "done"
       /\ result[p] = Existing(2)
       /\ store = atCall[p]
       /\ Len(store.bus_stops) = 2

\* a second ensureDataPopulated after one that loaded the empty payload
\* fetched the empty payload again and committed no row
C19_WitnessEmpty ==
    \E p \in DOMAIN pc :
       /\ Follows(p, "ensure")
       /\ LoadReturned(p)
       /\ busStopsData[p] = <<>>
       /\ store = EmptyTables

(***************************************************************************)
(* Properties of the query layer.                                          *)
(***************************************************************************)
\* C20: searchBusStops called without a query, or with a query of fewer
\* than two characters, returns the empty list at once: no statement is
\* issued to the store, nothing is thrown (not even on a service that was
\* never initialised), and the store is untouched.
C20_ShortQueryNoStoreAccess ==
    \A p \in DOMAIN pc :
       (op[p] = "search" /\ (~query[p].given \/ Len(query[p].text) < 2)) =>
          /\ pc[p] = "done"
          /\ log[p] = <<>>
          /\ pending[p] = {}
          /\ result[p] = ReturnedRows(0)
          /\ returned[p] = <<>>
          /\ store = atCall[p]

\* a query of one character, "M", got the empty list from a store whose
\* stops are all on "Main St"
C20_Witness ==
    \E p \in DOMAIN pc :
       /\ op[p] = "search" /\ pc[p] = "done"
       /\ query[p] = Query(<<"M">>)
       /\ db = "connected"
       /\ Len(store.bus_stops) = 2
       /\ result[p] = ReturnedRows(0)
       /\ log[p] = <<>>

\* a query of two characters, "ma", was sent to the store and found stops
C20_LongQueryFinds ==
    \E p \in DOMAIN pc :
       /\ op[p] = "search" /\ pc[p] = "done"
       /\ query[p] = Query(<<"m", "a">>)
       /\ Has(p, <<"SELECT", "-">>, "ok")
       /\ Len(returned[p]) = 2

\* the text holds the query somewhere, letters compared as LIKE compares
\* them (the collation of the store)
Contains(text, q) ==
    \E i \in 0..(Len(text) - Len(q)) :
       \A j \in 1..Len(q) : Fold(text[i + j]) = Fold(q[j])

\* the stop's identifier (as text), description or road name holds the query
HoldsQuery(row, q) ==
    \/ (~row.bus_stop_id.nan /\ Contains(IntegerText(row.bus_stop_id.n), q))
    \/ Contains(row.description, q)
    \/ Contains(row.road_name, q)

\* the call was searchBusStops with a query of two or more characters, and
\* it returned its rows
Searched(p) ==
    /\ op[p] = "search" /\ pc[p] = "done"
    /\ query[p].given /\ Len(query[p].text) >= 2
    /\ result[p].kind = "return"

\* C21: for a query of two or more characters searchBusStops returns only
\* stops whose identifier (as text), description or road name contains the
\* query as a substring, in ascending order of road name, at most 50 of
\* them, and the store is as it was when the call was made.
C21_SearchReturnsSubstringMatches ==
    \A p \in DOMAIN pc :
       Searched(p) =>
          /\ \A i \in 1..Len(returned[p]) :
                HoldsQuery(returned[p][i], query[p].text)
          /\ \A i, j \in 1..Len(returned[p]) :
                i < j => TextLeq(returned[p][i].road_name, returned[p][j].road_name)
          /\ Len(returned[p]) <= SearchLimit
          /\ store = atCall[p]

\* the stops of the store whose identifier equals the argument (a NULL
\* identifier, or an argument that was not passed, equals nothing)
StopsWithCode(code) ==
    { i \in 1..Len(store.bus_stops) :
         /\ ~code.nan
         /\ store.bus_stops[i].bus_stop_id = code }

\* the call was getBusStopInfo and its SELECT succeeded
LookedUp(p) ==
    /\ op[p] = "info" /\ pc[p] = "done"
    /\ Has(p, <<"SELECT WHERE", "-">>, "ok")

\* C22: getBusStopInfo returns one stop row, whose identifier equals the
\* argument, when the store has such a row, and null when it has none; an
\* identifier that is not in the store (or was not passed) raises no error,
\* and the store is left as it was.
C22_LookupReturnsRowOrNull ==
    \A p \in DOMAIN pc :
       LookedUp(p) =>
          /\ result[p].kind = "return"
          /\ store = atCall[p]
          /\ IF StopsWithCode(stopCode[p]) = {}
             THEN result[p] = ReturnedNull /\ returned[p] = <<>>
             ELSE /\ result[p] = ReturnedRow
                  /\ \E i \in StopsWithCode(stopCode[p]) :
                        returned[p] = <<store.bus_stops[i]>>

\* stop 2 was looked up in a store of two stops and its row came back
C22_Witness ==
    \E p \in DOMAIN pc :
       /\ LookedUp(p)
       /\ stopCode[p] = Num(2)
       /\ Len(store.bus_stops) = 2
       /\ result[p] = ReturnedRow
       /\ Len(returned[p]) = 1 /\ returned[p][1].bus_stop_id = Num(2)

\* stop 7 was looked up in a store of two other stops and null came back
C22_WitnessMissing ==
    \E p \in DOMAIN pc :
       /\ LookedUp(p)
       /\ stopCode[p] = Num(7)
       /\ Len(store.bus_stops) = 2
       /\ result[p] = ReturnedNull

(***************************************************************************)
(* Properties of the stored schedule.                                      *)
(***************************************************************************)
\* schedule entries of the table for the same route and day class
SameRouteDay(times, i, j) ==
    /\ times[i].route_id = times[j].route_id
    /\ times[i].day_of_week = times[j].day_of_week

\* C23: in every reachable state the store holds at most one schedule entry
\* per (route identifier, day class).
C23_OneEntryPerRouteDay ==
    \A i, j \in 1..Len(store.bus_times) :
       i # j => ~SameRouteDay(store.bus_times, i, j)

\* a refresh reloaded a store that already held the three schedule entries
\* of route "1-7", and it holds three again
C23_Witness ==
    \E p \in DOMAIN pc :
       /\ op[p] = "refresh" /\ pc[p] = "done"
       /\ Len(atCall[p].bus_times) = 3
       /\ Has(p, <<"COMMIT", "-">>, "ok")
       /\ Len(store.bus_times) = 3
       /\ \A i \in 1..3 : store.bus_times[i].route_id = <<"1", "-", "7">>

\* a payload whose two routes share the identifier "1-2-3" was fetched, and
\* its load ended without one schedule entry stored
C23_CollidingRoutesRejected ==
    \E p \in DOMAIN pc :
       /\ pc[p] = "done"
       /\ Len(busStopsData[p]) = 2
       /\ \A i \in 1..2 :
             /\ Len(busStopsData[p][i].stop.buses) = 1
             /\ routeId(busStopsData[p][i].key, busStopsData[p][i].stop.buses[1].num)
                   = <<"1", "-", "2", "-", "3">>
       /\ Has(p, <<"BEGIN", "-">>, "ok")
       /\ store.bus_times = <<>>

(***************************************************************************)
(* Properties of interleaved calls.                                        *)
(***************************************************************************)
\* the call is an ensureDataPopulated (alone or inside init) whose count
\* query returned zero
ReadZero(p) ==
    /\ op[p] \in {"ensure", "init"}
    /\ CountRead(p)
    /\ count[p] = 0

\* the fetch of the call returned its payload
Fetched(p) == Has(p, <<"fetch", "-">>, "ok")

\* C24: the service provides no mutual exclusion.  A caller that is not
\* inside a call can start ensureDataPopulated whatever the other caller is
\* in the middle of; a call that read a stop count of zero goes on to the
\* fetch, and once the payload is there it issues BEGIN, wherever the other
\* call stands.
C24_NoMutualExclusion ==
    \A p \in Pair :
       /\ pc[p] = "idle" => ENABLED CallEnsure(p)
       /\ ReadZero(p) => Fetches(p)
       /\ (ReadZero(p) /\ Fetched(p)) => BeginIssued(p)

\* both calls have read a stop count of zero on the empty store, both have
\* fetched, and both have issued their BEGIN
C24_Witness ==
    /\ Cardinality(Pair) = 2
    /\ \A p \in Pair :
          /\ ReadZero(p)
          /\ atCall[p] = EmptyTables
          /\ Fetched(p)
          /\ BeginIssued(p)
          /\ pc[p] \in {"begin", "insert"}

\* the double load: both calls read zero, both committed their payload, and
\* the store holds the stops of both
C24_DoubleLoad ==
    /\ \A p \in Pair :
          /\ ReadZero(p)
          /\ pc[p] = "done"
          /\ Has(p, <<"COMMIT", "-">>, "ok")
          /\ result[p].kind = "return" /\ result[p].n = 1
    /\ Len(store.bus_stops) = 2
    /\ ~txnOpen

(***************************************************************************)
(* Properties of the transaction's end.                                    *)
(***************************************************************************)
\* the call has ended (it returned or threw) and its BEGIN had succeeded
EndedAfterBegin(p) == pc[p] = "done" /\ Has(p, <<"BEGIN", "-">>, "ok")

\* the last statement the call settled
LastSettled(p) == log[p][Len(log[p])]

\* C25: with serialized calls, a load whose BEGIN succeeded does not end
\* with the transaction open.  Before it ends it has either committed (one
\* COMMIT that succeeded, no ROLLBACK: the load returns) or issued one
\* ROLLBACK (after an INSERT, the normalisation or the COMMIT itself
\* failed: the load throws), never both and never neither, and that
\* statement is the last one of the call.
C25_TransactionClosedOnce ==
    \A p \in DOMAIN pc :
       EndedAfterBegin(p) =>
          /\ ~txnOpen
          /\ Succeeded(p, <<"COMMIT", "-">>) + Issued(p, <<"ROLLBACK", "-">>) = 1
          /\ Issued(p, <<"COMMIT", "-">>) <= 1
          /\ LoadReturned(p) <=> Has(p, <<"COMMIT", "-">>, "ok")
          /\ LastSettled(p).call \in {<<"COMMIT", "-">>, <<"ROLLBACK", "-">>}
          /\ LastSettled(p).call = <<"COMMIT", "-">> => LastSettled(p).outcome = "ok"

\* the COMMIT of a load failed, the ROLLBACK that followed succeeded, and
\* the load ended with no transaction open
C25_Witness ==
    \E p \in DOMAIN pc :
       /\ EndedAfterBegin(p)
       /\ Has(p, <<"COMMIT", "-">>, "error")
       /\ LastSettled(p) = Entry(<<"ROLLBACK", "-">>, "ok")
       /\ ~txnOpen
       /\ result[p].error = <<"COMMIT", "-">>

\* a load committed and returned: no ROLLBACK was issued
C25_WitnessCommitted ==
    \E p \in DOMAIN pc :
       /\ EndedAfterBegin(p)
       /\ LoadReturned(p)
       /\ LastSettled(p) = Entry(<<"COMMIT", "-">>, "ok")
       /\ Issued(p, <<"INSERT", "bus_times">>) > 0
       /\ Issued(p, <<"ROLLBACK", "-">>) = 0

(***************************************************************************)
(* Properties of init.                                                     *)
(***************************************************************************)
\* init has ended
InitEnded(p) == op[p] = "init" /\ pc[p] = "done"

\* the connection was made and ensureDataPopulated ran to its return: the
\* count was read and was non-zero, or the load that followed committed
EnsureCompleted(p) ==
    /\ Has(p, <<"Database.load", "-">>, "ok")
    /\ CountRead(p)
    /\ (count[p] # 0 \/ Has(p, <<"COMMIT", "-">>, "ok"))

\* init returned {success: false} with the failure e as its message
InitFailedWith(p, e) == result[p] = Outcome("false", "error", 0, e)

\* a statement of the write (BEGIN, an INSERT, COMMIT) failed, or the
\* normalisation inside the transaction did
WriteFailed(p) ==
    \/ \E i \in 1..Len(log[p]) :
          /\ log[p][i].outcome # "ok"
          /\ log[p][i].call[1] \in {"BEGIN", "INSERT", "COMMIT"}
    \/ insertError[p] = TypeError

\* C26: init never throws.  It returns {success: true, message} exactly
\* when the connection was made and ensureDataPopulated completed, and
\* {success: false, message} with the failure as message when the
\* connection, the count query, the fetch or the write failed.
C26_InitNeverThrows ==
    \A p \in DOMAIN pc :
       InitEnded(p) =>
          /\ result[p].kind = "return"
          /\ result[p].success \in {"true", "false"}
          /\ result[p].success = "true" <=> EnsureCompleted(p)
          /\ result[p].success = "true" => result[p].error = NoError
          /\ Has(p, <<"Database.load", "-">>, "error")
                => InitFailedWith(p, <<"Database.load", "-">>)
          /\ Has(p, <<"SELECT COUNT", "-">>, "error")
                => InitFailedWith(p, <<"SELECT COUNT", "-">>)
          /\ FetchFailed(p) => InitFailedWith(p, <<"fetch", "-">>)
          /\ WriteFailed(p) =>
                \E e \in FailedCalls(p) \cup {TypeError} : InitFailedWith(p, e)

\* init returned {success: false} carrying the failure of the INSERT into
\* bus_stops
C26_Witness ==
    \E p \in DOMAIN pc :
       /\ InitEnded(p)
       /\ Has(p, <<"INSERT", "bus_stops">>, "error")
       /\ InitFailedWith(p, <<"INSERT", "bus_stops">>)

\* init returned {success: false} carrying the connection's failure
C26_WitnessConnection ==
    \E p \in DOMAIN pc :
       /\ InitEnded(p)
       /\ InitFailedWith(p, <<"Database.load", "-">>)
       /\ db = "null"

\* init returned {success: true} after loading a payload
C26_WitnessSuccess ==
    \E p \in DOMAIN pc :
       /\ InitEnded(p)
       /\ EnsureCompleted(p)
       /\ result[p] = Outcome("true", "loaded", 2, NoError)

(***************************************************************************)
(* Properties of empty batches.                                            *)
(***************************************************************************)
Tables == {"bus_stops", "bus_routes", "bus_times"}

\* the payload of the call is there and its normalisation does not throw
Normalised(p) == Fetched(p) /\ ~NormalisationThrows(busStopsData[p])

\* the batch the call's payload gives the table has no row
EmptyBatch(p, t) == Normalised(p) /\ Batches(busStopsData[p])[t] = <<>>

\* the INSERT statements of the call that are issued and not settled
InsertsPending(p, t) == { s \in pending[p] : s.verb = "INSERT" /\ s.table = t }

\* C27: a batch without rows gives no chunk, and no INSERT is issued for its
\* table; no INSERT is ever issued with an empty list of rows; and a load
\* whose payload has no stop, no bus line or no complete pair of times
\* still issues BEGIN and, when no statement fails, COMMIT, and returns.
C27_EmptyBatchNoInsert ==
    \A p \in DOMAIN pc :
       /\ \A s \in pending[p] : s.verb = "INSERT" => s.rows # <<>>
       /\ \A t \in Tables :
             EmptyBatch(p, t) =>
                /\ chunks[p][t] = <<>>
                /\ InsertsPending(p, t) = {}
                /\ Issued(p, <<"INSERT", t>>) = 0
                /\ BeginIssued(p)
                /\ (pc[p] = "done" /\ ~SomeFailure(p)) =>
                      /\ LoadReturned(p)
                      /\ log[p][Len(log[p])] = Entry(<<"COMMIT", "-">>, "ok")
                      /\ result[p].n = Len(busStopsData[p])

\* a payload of two stops without bus lines was loaded: BEGIN, one INSERT
\* of stops, COMMIT
C27_Witness ==
    \E p \in DOMAIN pc :
       /\ LoadReturned(p)
       /\ Len(busStopsData[p]) = 2
       /\ EmptyBatch(p, "bus_routes") /\ EmptyBatch(p, "bus_times")
       /\ From(p, BeginAt(p)) = << Entry(<<"BEGIN", "-">>, "ok"),
                                   Entry(<<"INSERT", "bus_stops">>, "ok"),
                                   Entry(<<"COMMIT", "-">>, "ok") >>

\* the payload without stops was loaded: BEGIN, COMMIT
C27_WitnessNoStops ==
    \E p \in DOMAIN pc :
       /\ LoadReturned(p)
       /\ Fetched(p) /\ busStopsData[p] = <<>>
       /\ From(p, BeginAt(p)) = << Entry(<<"BEGIN", "-">>, "ok"),
                                   Entry(<<"COMMIT", "-">>, "ok") >>
       /\ result[p].n = 0

\* a payload with a bus line and no complete pair of times was loaded: no
\* INSERT of schedule entries
C27_WitnessNoTimes ==
    \E p \in DOMAIN pc :
       /\ LoadReturned(p)
       /\ EmptyBatch(p, "bus_times")
       /\ Issued(p, <<"INSERT", "bus_routes">>) = 1
       /\ Issued(p, <<"INSERT", "bus_times">>) = 0
       /\ Has(p, <<"COMMIT", "-">>, "ok")

=============================================================================
